---------------------------- MODULE Spec2Model ----------------------------
(***************************************************************************)
(* Model of classifier.py: load_file_content (the content loader) and      *)
(* classify_bug_report (the classification pipeline).                      *)
(*                                                                         *)
(* A Python str is modelled as a sequence of one-character strings, so     *)
(* that prefixes, suffixes, trimming, splitting, serialisation and parsing *)
(* are computed and not assumed.                                           *)
(***************************************************************************)
EXTENDS Integers, Sequences, FiniteSets, TLC

VARIABLES
    file_path,         \* argument of classify_bug_report
    file,              \* what the file system holds at file_path
    GOOGLE_API_KEY,    \* the process environment variable
    pc,                \* position inside classify_bug_report
    file_content_str,  \* local of classify_bug_report (line 59)
    effects,           \* observable effects so far, in order
    reply,             \* what the remote call met, once it was made
    result,            \* the returned mapping, once pc = "returned"
    exception          \* the exception that left the function, once pc = "raised"

vars == <<file_path, file, GOOGLE_API_KEY, pc, file_content_str, effects,
          reply, result, exception>>

(***************************************************************************)
(* Bounds of the model.                                                    *)
(***************************************************************************)
\* largest number of elements of an XML document in a modelled file
MaxNodes == 3
\* largest number of items of a JSON array or object in a modelled file
MaxItems == 2

(***************************************************************************)
(* Strings.                                                                *)
(***************************************************************************)
LowerAlpha == <<"a", "b", "c", "d", "e", "f", "g", "h", "i", "j", "k", "l", "m",
                "n", "o", "p", "q", "r", "s", "t", "u", "v", "w", "x", "y", "z">>
UpperAlpha == <<"A", "B", "C", "D", "E", "F", "G", "H", "I", "J", "K", "L", "M",
                "N", "O", "P", "Q", "R", "S", "T", "U", "V", "W", "X", "Y", "Z">>

\* str.lower() of one character
LowerChar(c) ==
    IF \E i \in 1..Len(UpperAlpha) : UpperAlpha[i] = c
    THEN LowerAlpha[CHOOSE i \in 1..Len(UpperAlpha) : UpperAlpha[i] = c]
    ELSE c

\* str.upper() of one character
UpperChar(c) ==
    IF \E i \in 1..Len(LowerAlpha) : LowerAlpha[i] = c
    THEN UpperAlpha[CHOOSE i \in 1..Len(LowerAlpha) : LowerAlpha[i] = c]
    ELSE c

\* str.lower()
Lower(s) == [i \in 1..Len(s) |-> LowerChar(s[i])]

\* str.capitalize(): first character upper-cased, the rest lower-cased
Capitalize(s) == [i \in 1..Len(s) |-> IF i = 1 THEN UpperChar(s[i]) ELSE LowerChar(s[i])]

\* str.startswith(prefix)
StartsWith(s, prefix) ==
    /\ Len(prefix) <= Len(s)
    /\ SubSeq(s, 1, Len(prefix)) = prefix

\* a plausible slip: suffix test replaced by a substring test
ContainsSub(s, sub) ==
    \E i \in 1..(Len(s) + 1) :
        /\ i + Len(sub) - 1 <= Len(s)
        /\ SubSeq(s, i, i + Len(sub) - 1) = sub

\* str.endswith(suffix)
EndsWith(s, suffix) ==
    /\ Len(suffix) <= Len(s)
    /\ SubSeq(s, Len(s) - Len(suffix) + 1, Len(s)) = suffix

\* the characters str.strip() removes
Whitespace == {" ", "\n", "\t", "\r"}

\* str.strip(): leading and trailing whitespace removed, the inside kept
Strip(s) ==
    LET keep == {i \in 1..Len(s) : s[i] \notin Whitespace}
    IN  IF keep = {} THEN <<>>
        ELSE LET first == CHOOSE i \in keep : \A j \in keep : i <= j
                 last  == CHOOSE i \in keep : \A j \in keep : j <= i
             IN  SubSeq(s, first, last)

RECURSIVE Join(_, _)
\* sep.join(parts)
Join(sep, parts) ==
    IF parts = <<>> THEN <<>>
    ELSE IF Len(parts) = 1 THEN parts[1]
    ELSE parts[1] \o sep \o Join(sep, Tail(parts))

RECURSIVE Split(_, _)
\* s.split(c) for a one-character separator c
Split(s, c) ==
    IF \A i \in 1..Len(s) : s[i] # c THEN <<s>>
    ELSE LET k == CHOOSE i \in 1..Len(s) : s[i] = c /\ \A j \in 1..(i - 1) : s[j] # c
         IN  <<SubSeq(s, 1, k - 1)>> \o Split(SubSeq(s, k + 1, Len(s)), c)

ErrorPrefix == <<"E", "r", "r", "o", "r">>
UnsupportedPrefix ==
    <<"E", "r", "r", "o", "r", ":", " ", "U", "n", "s", "u", "p", "p", "o", "r", "t",
      "e", "d", " ", "f", "i", "l", "e", " ", "f", "o", "r", "m", "a", "t", " ", "f",
      "o", "r", " ">>
ReadErrorPrefix ==
    <<"E", "r", "r", "o", "r", " ", "r", "e", "a", "d", "i", "n", "g", " ", "f", "i",
      "l", "e", ":", " ">>
JsonSuffix == <<".", "j", "s", "o", "n">>
XmlSuffix == <<".", "x", "m", "l">>

(***************************************************************************)
(* XML documents.  ET.fromstring yields the root Element; an Element has a *)
(* tag, a text (None when the element has no character data before its     *)
(* first child; None is modelled as the empty string, both are falsy) and  *)
(* its child elements in document order.                                   *)
(***************************************************************************)
RECURSIVE Iter(_)
\* Element.iter(): the element itself, then its descendants, depth first in
\* document order
Iter(elem) ==
    LET RECURSIVE over(_)
        over(cs) == IF cs = <<>> THEN <<>> ELSE Iter(Head(cs)) \o over(Tail(cs))
    IN  <<elem>> \o over(elem.children)

\* the condition of line 43: elem.text and elem.text.strip()
HasText(elem) == elem.text # <<>> /\ Strip(elem.text) # <<>>

\* the f-string of line 44
XmlLine(elem) == Capitalize(elem.tag) \o <<":", " ">> \o Strip(elem.text)

\* a plausible slip: the text is appended untrimmed and never filtered
XmlTextRaw(root) ==
    LET all == Iter(root)
    IN  [i \in 1..Len(all) |-> Capitalize(all[i].tag) \o <<":", " ">> \o all[i].text]

\* lines 41-44: bug_text after the loop
XmlText(root) ==
    LET all == Iter(root)
        RECURSIVE collect(_)
        collect(i) ==
            IF i > Len(all) THEN <<>>
            ELSE IF HasText(all[i]) THEN <<XmlLine(all[i])>> \o collect(i + 1)
            ELSE collect(i + 1)
    IN  collect(1)

(***************************************************************************)
(* JSON values as Python holds them after json.loads: None, bool, int,     *)
(* str, list, and dict (insertion-ordered: a sequence of key/value pairs   *)
(* with distinct keys).                                                    *)
(***************************************************************************)
JNull == [t |-> "null"]
JBool(b) == [t |-> "bool", b |-> b]
JNum(n) == [t |-> "num", n |-> n]
JStr(s) == [t |-> "str", s |-> s]
JArr(a) == [t |-> "arr", a |-> a]
JObj(o) == [t |-> "obj", o |-> o]

Digits == <<"0", "1", "2", "3", "4", "5", "6", "7", "8", "9">>

RECURSIVE NatStr(_)
\* str(n) for n >= 0
NatStr(n) == IF n < 10 THEN <<Digits[n + 1]>> ELSE NatStr(n \div 10) \o <<Digits[(n % 10) + 1]>>

\* str(n) for an int
IntStr(n) == IF n < 0 THEN <<"-">> \o NatStr(-n) ELSE NatStr(n)

RECURSIVE Spaces(_)
Spaces(n) == IF n <= 0 THEN <<>> ELSE <<" ">> \o Spaces(n - 1)

\* json.encoder: the escape of one character inside a string literal
EscapeChar(c) ==
    CASE c = "\"" -> <<"\\", "\"">>
      [] c = "\\" -> <<"\\", "\\">>
      [] c = "\n" -> <<"\\", "n">>
      [] c = "\t" -> <<"\\", "t">>
      [] c = "\r" -> <<"\\", "r">>
      [] OTHER -> <<c>>

RECURSIVE EscapeAll(_)
EscapeAll(s) == IF s = <<>> THEN <<>> ELSE EscapeChar(Head(s)) \o EscapeAll(Tail(s))

\* a plausible slip: the string is quoted but not escaped
EncodeStringRaw(s) == <<"\"">> \o s \o <<"\"">>

\* json.encoder.encode_basestring_ascii
EncodeString(s) == <<"\"">> \o EscapeAll(s) \o <<"\"">>

\* json.dumps's indent=None is written -1 here; an indent >= 0 puts every item
\* on a line of its own
NewlineIndent(indent, level) ==
    IF indent < 0 THEN <<>> ELSE <<"\n">> \o Spaces(indent * level)

ItemSeparator(indent) == IF indent < 0 THEN <<",", " ">> ELSE <<",">>

KeySeparator == <<":", " ">>

RECURSIVE Encode(_, _, _)
\* json.encoder._make_iterencode: the text of value v at nesting level `level`
Encode(v, indent, level) ==
    LET sep == ItemSeparator(indent) \o NewlineIndent(indent, level + 1)
        RECURSIVE items(_, _)
        items(a, i) ==
            IF i > Len(a) THEN <<>>
            ELSE (IF i = 1 THEN <<>> ELSE sep)
                 \o Encode(a[i], indent, level + 1) \o items(a, i + 1)
        RECURSIVE pairs(_, _)
        pairs(o, i) ==
            IF i > Len(o) THEN <<>>
            ELSE (IF i = 1 THEN <<>> ELSE sep)
                 \o EncodeString(o[i].k) \o KeySeparator
                 \o Encode(o[i].v, indent, level + 1) \o pairs(o, i + 1)
    IN  CASE v.t = "null" -> <<"n", "u", "l", "l">>
          [] v.t = "bool" -> IF v.b THEN <<"t", "r", "u", "e">>
                             ELSE <<"f", "a", "l", "s", "e">>
          [] v.t = "num" -> IntStr(v.n)
          [] v.t = "str" -> EncodeString(v.s)
          [] v.t = "arr" ->
                IF v.a = <<>> THEN <<"[", "]">>
                ELSE <<"[">> \o NewlineIndent(indent, level + 1) \o items(v.a, 1)
                     \o NewlineIndent(indent, level) \o <<"]">>
          [] v.t = "obj" ->
                IF v.o = <<>> THEN <<"{", "}">>
                ELSE <<"{">> \o NewlineIndent(indent, level + 1) \o pairs(v.o, 1)
                     \o NewlineIndent(indent, level) \o <<"}">>

\* json.dumps(v, indent=indent)
Dumps(v, indent) == Encode(v, indent, 0)

(***************************************************************************)
(* json.loads over the characters the modelled files use: whitespace, the  *)
(* literals null/true/false, integers, strings with the escapes \" \\ \/   *)
(* \n \t \r, arrays and objects.  A parse yields [ok, val, pos]: whether    *)
(* it succeeded, the value, and the index after the text it consumed.      *)
(***************************************************************************)
ParseFail == [ok |-> FALSE, val |-> JNull, pos |-> 0]
ParseOk(v, p) == [ok |-> TRUE, val |-> v, pos |-> p]

RECURSIVE SkipWs(_, _)
\* json.decoder.WHITESPACE.match(s, i).end()
SkipWs(s, i) == IF i <= Len(s) /\ s[i] \in Whitespace THEN SkipWs(s, i + 1) ELSE i

\* s has the character c at index i
At(s, i, c) == i <= Len(s) /\ s[i] = c

\* s has the word w at index i
WordAt(s, i, w) == i + Len(w) - 1 <= Len(s) /\ SubSeq(s, i, i + Len(w) - 1) = w

IsDigit(c) == \E d \in 1..10 : Digits[d] = c
DigitVal(c) == (CHOOSE d \in 1..10 : Digits[d] = c) - 1

RECURSIVE ScanString(_, _, _)
\* json.decoder.py_scanstring (strict): i is the index after the opening quote
ScanString(s, i, acc) ==
    IF i > Len(s) THEN ParseFail
    ELSE LET c == s[i]
         IN  IF c = "\"" THEN ParseOk(acc, i + 1)
             ELSE IF c = "\\" THEN
                 IF i + 1 > Len(s) THEN ParseFail
                 ELSE LET e == s[i + 1]
                      IN  IF e \in {"\"", "\\", "/"} THEN ScanString(s, i + 2, Append(acc, e))
                          ELSE IF e = "n" THEN ScanString(s, i + 2, Append(acc, "\n"))
                          ELSE IF e = "t" THEN ScanString(s, i + 2, Append(acc, "\t"))
                          ELSE IF e = "r" THEN ScanString(s, i + 2, Append(acc, "\r"))
                          ELSE ParseFail
             ELSE IF c \in {"\n", "\t", "\r"} THEN ParseFail
             ELSE ScanString(s, i + 1, Append(acc, c))

RECURSIVE ScanDigits(_, _, _)
\* the digits from index i on, accumulated in base ten
ScanDigits(s, i, n) ==
    IF i <= Len(s) /\ IsDigit(s[i]) THEN ScanDigits(s, i + 1, 10 * n + DigitVal(s[i]))
    ELSE ParseOk(n, i)

\* json.scanner NUMBER_RE, integer part: -?(0|[1-9][0-9]*)
ScanNumber(s, i) ==
    LET neg == At(s, i, "-")
        j == IF neg THEN i + 1 ELSE i
    IN  IF j > Len(s) \/ ~IsDigit(s[j]) THEN ParseFail
        ELSE LET d == IF s[j] = "0" THEN ParseOk(0, j + 1) ELSE ScanDigits(s, j, 0)
             IN  ParseOk(JNum(IF neg THEN -d.val ELSE d.val), d.pos)

\* dict(pairs): a repeated key keeps its first position and takes the last value
PutPair(o, k, v) ==
    IF \E i \in 1..Len(o) : o[i].k = k
    THEN [i \in 1..Len(o) |-> IF o[i].k = k THEN [k |-> k, v |-> v] ELSE o[i]]
    ELSE Append(o, [k |-> k, v |-> v])

RECURSIVE ScanOnce(_, _), ArrayItems(_, _, _), ObjectItems(_, _, _)

\* json.decoder.JSONArray after the first item's position is known
ArrayItems(s, i, acc) ==
    LET r == ScanOnce(s, i)
    IN  IF ~r.ok THEN ParseFail
        ELSE LET k == SkipWs(s, r.pos)
                 got == Append(acc, r.val)
             IN  IF At(s, k, "]") THEN ParseOk(JArr(got), k + 1)
                 ELSE IF At(s, k, ",") THEN ArrayItems(s, SkipWs(s, k + 1), got)
                 ELSE ParseFail

\* json.decoder.JSONObject: i is the index of a key's opening quote
ObjectItems(s, i, acc) ==
    LET key == ScanString(s, i + 1, <<>>)
    IN  IF ~key.ok THEN ParseFail
        ELSE LET k == SkipWs(s, key.pos)
             IN  IF ~At(s, k, ":") THEN ParseFail
                 ELSE LET r == ScanOnce(s, SkipWs(s, k + 1))
                      IN  IF ~r.ok THEN ParseFail
                          ELSE LET m == SkipWs(s, r.pos)
                                   got == PutPair(acc, key.val, r.val)
                               IN  IF At(s, m, "}") THEN ParseOk(JObj(got), m + 1)
                                   ELSE IF At(s, m, ",") /\ At(s, SkipWs(s, m + 1), "\"")
                                   THEN ObjectItems(s, SkipWs(s, m + 1), got)
                                   ELSE ParseFail

\* json.scanner.py_make_scanner._scan_once: the value that starts at index i
ScanOnce(s, i) ==
    IF i > Len(s) THEN ParseFail
    ELSE IF s[i] = "\"" THEN
        LET r == ScanString(s, i + 1, <<>>)
        IN  IF r.ok THEN ParseOk(JStr(r.val), r.pos) ELSE ParseFail
    ELSE IF s[i] = "{" THEN
        LET j == SkipWs(s, i + 1)
        IN  IF At(s, j, "}") THEN ParseOk(JObj(<<>>), j + 1)
            ELSE IF At(s, j, "\"") THEN ObjectItems(s, j, <<>>)
            ELSE ParseFail
    ELSE IF s[i] = "[" THEN
        LET j == SkipWs(s, i + 1)
        IN  IF At(s, j, "]") THEN ParseOk(JArr(<<>>), j + 1)
            ELSE ArrayItems(s, j, <<>>)
    ELSE IF WordAt(s, i, <<"n", "u", "l", "l">>) THEN ParseOk(JNull, i + 4)
    ELSE IF WordAt(s, i, <<"t", "r", "u", "e">>) THEN ParseOk(JBool(TRUE), i + 4)
    ELSE IF WordAt(s, i, <<"f", "a", "l", "s", "e">>) THEN ParseOk(JBool(FALSE), i + 5)
    ELSE ScanNumber(s, i)

\* json.loads(s): one value, whitespace around it allowed, nothing after it
Loads(s) ==
    LET r == ScanOnce(s, SkipWs(s, 1))
    IN  IF r.ok /\ SkipWs(s, r.pos) = Len(s) + 1 THEN r ELSE ParseFail

(***************************************************************************)
(* The inputs: paths, files, environment.                                  *)
(***************************************************************************)
\* all sequences over S of length at most n
SeqsUpTo(S, n) == UNION {[1..k -> S] : k \in 0..n}

JsonAtoms ==
    {JNull, JBool(TRUE), JNum(0), JNum(-12),
     JStr(<<"E", "\"">>), JStr(<<"\\", "\n">>)}

JsonKeys == {<<"a">>, <<"k", "\"">>}

JsonNested ==
    {JArr(<<JArr(<<JBool(FALSE)>>), JObj(<<[k |-> <<"a">>, v |-> JArr(<<>>)]>>)>>),
     JObj(<<[k |-> <<"a">>, v |-> JObj(<<[k |-> <<>>, v |-> JStr(<<>>)]>>)],
            [k |-> <<"E">>, v |-> JArr(<<JNum(305), JNull>>)]>>)}

\* the JSON values whose serialisations the modelled files hold
JsonValues ==
    JsonAtoms
    \cup {JArr(a) : a \in SeqsUpTo(JsonAtoms, MaxItems)}
    \cup {JObj(o) : o \in {p \in SeqsUpTo([k : JsonKeys, v : JsonAtoms], MaxItems) :
                              \A i, j \in 1..Len(p) : p[i].k = p[j].k => i = j}}
    \cup JsonNested

\* the indent of the writer of the test data (json.dump(json_data, f, indent=4))
TestIndent == 4
\* the indent of line 37
OutputIndent == 2

\* texts no json.dumps wrote: a repeated key, padding, an escaped slash, an
\* escaped quote, a
\* leading zero, a trailing comma, a missing comma, a missing value, an
\* unterminated string, a cut literal, an empty file, text after the value
JsonOddTexts ==
    {<<"{", "\"", "a", "\"", ":", "1", ",", "\"", "b", "\"", ":", "2", ",",
       "\"", "a", "\"", ":", "3", "}">>,
     <<" ", "[", "1", " ", ",", "\t", "2", "]", "\n">>,
     <<"\"", "\\", "/", "\"">>,
     <<"[", "\"", "\\", "\"", "\"", "]">>,
     <<"0", "1">>,
     <<"[", "1", ",", "]">>,
     <<"[", "1", " ", "2", "]">>,
     <<"{", "\"", "a", "\"", "}">>,
     <<"\"", "a">>,
     <<"t", "r", "u">>,
     <<>>,
     <<"E", "r", "r", "o", "r">>,
     <<"{", "}", "x">>}

JsonFileTexts ==
    {Dumps(v, w) : v \in JsonValues, w \in {-1, OutputIndent, TestIndent}}
    \cup JsonOddTexts

\* tag and text of the modelled elements: a tag that capitalises to "Error",
\* a mixed-case tag, no text, whitespace-only text, padded text, text with a
\* line break inside
XmlLabels ==
    {[tag |-> <<"e", "R", "R", "O", "R">>, text |-> <<" ", "x", " ">>],
     [tag |-> <<"e", "R", "R", "O", "R">>, text |-> <<>>],
     [tag |-> <<"i", "D">>, text |-> <<" ", "\n">>],
     [tag |-> <<"i", "D">>, text |-> <<"y", "\n", "z">>]}

RECURSIVE XmlTreesOf(_), XmlForestsOf(_)
\* the element trees with exactly n elements
XmlTreesOf(n) ==
    {[tag |-> l.tag, text |-> l.text, children |-> c] :
        l \in XmlLabels, c \in XmlForestsOf(n - 1)}
\* the sequences of element trees with n elements in all
XmlForestsOf(n) ==
    IF n = 0 THEN {<<>>}
    ELSE UNION {{<<t>> \o f : t \in XmlTreesOf(k), f \in XmlForestsOf(n - k)} :
                   k \in 1..n}

XmlTrees == UNION {XmlTreesOf(n) : n \in 1..MaxNodes}

NoContent == [kind |-> "none"]

\* what open(file_path) and f.read() find: no file, a file that cannot be read
\* (permissions, bytes that are not UTF-8), or a file with its content: a text
\* that is no XML document, or a well-formed XML document
Files ==
    {[status |-> "missing", content |-> NoContent],
     [status |-> "unreadable", content |-> NoContent]}
    \cup {[status |-> "ok", content |-> [kind |-> "text", text |-> t]] :
             t \in JsonFileTexts}
    \cup {[status |-> "ok", content |-> [kind |-> "xml", root |-> r]] :
             r \in XmlTrees}

Paths ==
    {<<"b", ".", "J", "s", "o", "n">>,
     <<"b", ".", "x", "m", "l">>,
     <<"b", ".", "t", "x", "t">>,
     <<"x", "m", "l">>,
     <<"b", ".", "x", "m", "l", "~">>}

\* str(e) of the exception caught at line 50
ErrorMessages == {<<>>, <<"e", "r", "r", "n", "o">>}

\* os.getenv("GOOGLE_API_KEY"): None when the variable is not set
Unset == "<unset>"
EnvValues == {Unset, "", "key"}

(***************************************************************************)
(* load_file_content                                                       *)
(***************************************************************************)
\* lines 39-45, for a content ET.fromstring accepts
LoadXml(root) == Join(<<"\n">>, XmlText(root))

\* line 37
LoadJson(json_data) == Dumps(json_data, OutputIndent)

\* a plausible slip: a caught exception is reported under another prefix
load_file_content_failed(path, f, msg) ==
    LET failed == <<"F", "a", "i", "l", "e", "d", ":", " ">> \o msg
    IN  IF f.status # "ok" THEN failed
        ELSE IF EndsWith(Lower(path), JsonSuffix) THEN
            IF f.content.kind = "text" /\ Loads(f.content.text).ok
            THEN LoadJson(Loads(f.content.text).val)
            ELSE failed
        ELSE IF EndsWith(Lower(path), XmlSuffix) THEN
            IF f.content.kind = "xml" THEN LoadXml(f.content.root)
            ELSE failed
        ELSE UnsupportedPrefix \o path

\* a plausible slip: the extension is looked for anywhere in the path
load_file_content_loose(path, f, msg) ==
    IF f.status # "ok" THEN ReadErrorPrefix \o msg
    ELSE IF ContainsSub(Lower(path), JsonSuffix) THEN
        IF f.content.kind = "text" /\ Loads(f.content.text).ok
        THEN LoadJson(Loads(f.content.text).val)
        ELSE ReadErrorPrefix \o msg
    ELSE IF ContainsSub(Lower(path), XmlSuffix) THEN
        IF f.content.kind = "xml" THEN LoadXml(f.content.root)
        ELSE ReadErrorPrefix \o msg
    ELSE UnsupportedPrefix \o path

\* lines 29-51; msg is str(e) should an exception be caught
load_file_content(path, f, msg) ==
    IF f.status # "ok" THEN ReadErrorPrefix \o msg
    ELSE IF EndsWith(Lower(path), JsonSuffix) THEN
        IF f.content.kind = "text" /\ Loads(f.content.text).ok
        THEN LoadJson(Loads(f.content.text).val)
        ELSE ReadErrorPrefix \o msg
    ELSE IF EndsWith(Lower(path), XmlSuffix) THEN
        IF f.content.kind = "xml" THEN LoadXml(f.content.root)
        ELSE ReadErrorPrefix \o msg
    ELSE UnsupportedPrefix \o path

(***************************************************************************)
(* BugClassification and the provider.                                     *)
(***************************************************************************)
\* line 15
PriorityDomain == {"High", "Medium", "Low"}
\* line 18
ComponentDomain == {"UI", "Backend", "Database", "API", "Testing"}
\* lines 15-26
SchemaFields == {"priority", "component", "is_valid_bug", "summary_of_bug"}

Payload(p, c, b, t) ==
    [priority |-> p, component |-> c, is_valid_bug |-> b, summary_of_bug |-> t]

\* the JSON objects the provider may answer with; is_valid_bug holds the JSON
\* literal as written.  The provider is asked for the schema and is not bound
\* to it: values outside the domains, missing fields and extra fields occur.
ProviderPayloads ==
    {Payload(p, "UI", "true", "s") : p \in PriorityDomain \cup {"Critical"}}
    \cup {Payload("Low", c, "false", "") : c \in ComponentDomain \cup {"Frontend"}}
    \cup {Payload("Medium", "API", b, "s") : b \in {"true", "false", "null"}}
    \cup {[priority |-> "High", component |-> "UI", is_valid_bug |-> "true"],
          [summary_of_bug |-> "s"],
          [error |-> "quota"],
          [priority |-> "High", component |-> "Backend", is_valid_bug |-> "true",
           summary_of_bug |-> "s", error |-> "none"]}

\* what classification_chain.invoke meets: an answer, or a failure on the way
Outcomes ==
    {[kind |-> "payload", payload |-> r] : r \in ProviderPayloads}
    \cup {[kind |-> k] : k \in {"network", "provider", "authentication"}}

\* a plausible slip: the answer is parsed as JSON and its fields are looked for,
\* their values are not checked (json_mode without the schema's validation)
ValidatesPresence(r) == SchemaFields \subseteq DOMAIN r

\* BugClassification(**r) succeeds: every field present and in its domain
Validates(r) ==
    /\ SchemaFields \subseteq DOMAIN r
    /\ r.priority \in PriorityDomain
    /\ r.component \in ComponentDomain
    /\ r.is_valid_bug \in {"true", "false"}

\* result.dict(): the declared fields of the validated object
ToDict(r) ==
    [priority |-> r.priority, component |-> r.component,
     is_valid_bug |-> (r.is_valid_bug = "true"), summary_of_bug |-> r.summary_of_bug]

(***************************************************************************)
(* classify_bug_report, one invocation.                                    *)
(***************************************************************************)
NoResult == <<>>
NoReply == [kind |-> "none"]

Init ==
    /\ file_path \in Paths
    /\ file \in Files
    /\ GOOGLE_API_KEY \in EnvValues
    /\ pc = "load"
    /\ file_content_str = <<>>
    /\ effects = <<>>
    /\ reply = NoReply
    /\ result = NoResult
    /\ exception = "none"

\* a plausible slip: the key is checked before the loader's result is looked at
LoadChecksKeyFirst ==
    /\ pc = "load"
    /\ effects' = IF GOOGLE_API_KEY \in {Unset, ""}
                  THEN effects \o <<"getenv", "warning">>
                  ELSE Append(effects, "getenv")
    /\ \E msg \in ErrorMessages :
          LET s == load_file_content(file_path, file, msg)
          IN  /\ file_content_str' = s
              /\ IF StartsWith(s, ErrorPrefix)
                 THEN pc' = "returned" /\ result' = [error |-> s]
                 ELSE pc' = "init_llm" /\ result' = result
    /\ UNCHANGED <<file_path, file, GOOGLE_API_KEY, reply, exception>>

\* a plausible slip: the early return of lines 60-61 is missing
LoadKeepsGoing ==
    /\ pc = "load"
    /\ \E msg \in ErrorMessages :
          file_content_str' = load_file_content(file_path, file, msg)
    /\ pc' = "check_key"
    /\ UNCHANGED <<file_path, file, GOOGLE_API_KEY, effects, reply, result, exception>>

\* lines 59-61
Load ==
    /\ pc = "load"
    /\ \E msg \in ErrorMessages :
          LET s == load_file_content(file_path, file, msg)
          IN  /\ file_content_str' = s
              /\ IF StartsWith(s, ErrorPrefix)
                 THEN pc' = "returned" /\ result' = [error |-> s]
                 ELSE pc' = "check_key" /\ result' = result
    /\ UNCHANGED <<file_path, file, GOOGLE_API_KEY, effects, reply, exception>>

\* a plausible slip: a missing key ends the invocation with an error mapping
CheckKeyFailFast ==
    /\ pc = "check_key"
    /\ IF GOOGLE_API_KEY \in {Unset, ""}
       THEN /\ effects' = effects \o <<"getenv", "warning">>
            /\ pc' = "returned"
            /\ result' = [error |-> <<"n", "o", " ", "k", "e", "y">>]
       ELSE /\ effects' = Append(effects, "getenv")
            /\ pc' = "init_llm"
            /\ result' = result
    /\ UNCHANGED <<file_path, file, GOOGLE_API_KEY, file_content_str, reply, exception>>

\* lines 64-65
CheckKey ==
    /\ pc = "check_key"
    /\ effects' = IF GOOGLE_API_KEY \in {Unset, ""}
                  THEN effects \o <<"getenv", "warning">>
                  ELSE Append(effects, "getenv")
    /\ pc' = "init_llm"
    /\ UNCHANGED <<file_path, file, GOOGLE_API_KEY, file_content_str, reply, result, exception>>

\* lines 68-88: the client, the structured-output wrapper, the prompt, the chain
InitLLM ==
    /\ pc = "init_llm"
    /\ effects' = Append(effects, "client")
    /\ pc' = "invoke"
    /\ UNCHANGED <<file_path, file, GOOGLE_API_KEY, file_content_str, reply, result, exception>>

\* the exception a failed call leaves the function with
Raised(out) == IF out.kind = "payload" THEN "validation" ELSE out.kind

\* a plausible slip: a failed call is tried once more before giving up
InvokeWithRetry ==
    /\ pc = "invoke"
    /\ \E out \in Outcomes :
          /\ reply' = out
          /\ IF out.kind = "payload" /\ Validates(out.payload)
                THEN /\ effects' = Append(effects, "remote_call")
                     /\ pc' = "returned"
                     /\ result' = ToDict(out.payload)
                     /\ exception' = exception
                ELSE /\ effects' = effects \o <<"remote_call", "remote_call">>
                     /\ pc' = "raised"
                     /\ result' = result
                     /\ exception' = Raised(out)
    /\ UNCHANGED <<file_path, file, GOOGLE_API_KEY, file_content_str>>

\* lines 91-95
Invoke ==
    /\ pc = "invoke"
    /\ effects' = Append(effects, "remote_call")
    /\ \E out \in Outcomes :
          /\ reply' = out
          /\ IF out.kind = "payload" /\ Validates(out.payload)
                THEN /\ pc' = "returned"
                     /\ result' = ToDict(out.payload)
                     /\ exception' = exception
                ELSE /\ pc' = "raised"
                     /\ result' = result
                     /\ exception' = Raised(out)
    /\ UNCHANGED <<file_path, file, GOOGLE_API_KEY, file_content_str>>

Next == Load \/ CheckKey \/ InitLLM \/ Invoke

Spec == Init /\ [][Next]_vars

(***************************************************************************)
(* Vocabulary of the properties.                                           *)
(***************************************************************************)
\* load_file_content has returned (its value is in file_content_str)
Loaded == pc # "load"
\* classify_bug_report is over
Finished == pc \in {"returned", "raised"}
\* how often x occurs in seq
Count(seq, x) == Cardinality({i \in 1..Len(seq) : seq[i] = x})

IsJsonPath == EndsWith(Lower(file_path), JsonSuffix)
IsXmlPath == EndsWith(Lower(file_path), XmlSuffix)
Readable == file.status = "ok"
\* a readable .json file holding well-formed JSON
JsonCase == Readable /\ IsJsonPath /\ file.content.kind = "text" /\ Loads(file.content.text).ok
\* a readable .xml file holding a well-formed document
XmlCase == Readable /\ IsXmlPath /\ file.content.kind = "xml"
\* the local failures: read failure, parse failure, unsupported extension
ReadOrParseFailure ==
    \/ ~Readable
    \/ IsJsonPath /\ ~JsonCase
    \/ ~IsJsonPath /\ IsXmlPath /\ ~XmlCase
LocalFailure == ReadOrParseFailure \/ (~IsJsonPath /\ ~IsXmlPath)

IsErrorMapping == pc = "returned" /\ DOMAIN result = {"error"}
ReturnedSentinel == Loaded /\ StartsWith(file_content_str, ErrorPrefix)
\* the loader's result passed the test of line 60
LoaderSucceeded == Loaded /\ ~StartsWith(file_content_str, ErrorPrefix)

\* C1: when load_file_content returns a string that starts with "Error",
\* classify_bug_report returns the mapping with the single key "error" whose
\* value is that string, and the invocation makes no remote call.
Thm_C1 ==
    ReturnedSentinel =>
        /\ pc = "returned"
        /\ DOMAIN result = {"error"}
        /\ result.error = file_content_str
        /\ Count(effects, "remote_call") = 0

Witness_C1 ==
    /\ ReturnedSentinel
    /\ IsErrorMapping
    /\ result.error = ReadErrorPrefix \o <<"e", "r", "r", "n", "o">>

\* C2 as stated: for a path that ends neither in .json nor in .xml the loader
\* returns "Error: Unsupported file format for {path}", whether or not the
\* file exists or can be read.
Orig_C2 ==
    (Loaded /\ ~IsJsonPath /\ ~IsXmlPath) =>
        file_content_str = UnsupportedPrefix \o file_path

\* C2 as amended: for a path that ends neither in .json nor in .xml the loader
\* returns "Error: Unsupported file format for {path}" when the file can be
\* opened and read, and "Error reading file: {message}" when it cannot.
Thm_C2 ==
    (Loaded /\ ~IsJsonPath /\ ~IsXmlPath) =>
        IF Readable
        THEN file_content_str = UnsupportedPrefix \o file_path
        ELSE /\ StartsWith(file_content_str, ReadErrorPrefix)
             /\ file_content_str # UnsupportedPrefix \o file_path

Witness_C2 ==
    /\ Loaded /\ Readable
    /\ file_path = <<"b", ".", "x", "m", "l", "~">>
    /\ file.content.kind = "xml"
    /\ file_content_str = UnsupportedPrefix \o file_path

\* C3: a returned mapping has exactly the four classification keys, with
\* priority, component and is_valid_bug in their domains, or exactly the key
\* "error"; never both kinds of key, never a part of the four.
Thm_C3 ==
    pc = "returned" =>
        \/ /\ DOMAIN result = {"priority", "component", "is_valid_bug", "summary_of_bug"}
           /\ result.priority \in {"High", "Medium", "Low"}
           /\ result.component \in {"UI", "Backend", "Database", "API", "Testing"}
           /\ result.is_valid_bug \in BOOLEAN
        \/ DOMAIN result = {"error"}

Witness_C3 ==
    /\ pc = "returned"
    /\ reply.kind = "payload"
    /\ "error" \in DOMAIN reply.payload
    /\ DOMAIN result = {"priority", "component", "is_valid_bug", "summary_of_bug"}
    /\ result.is_valid_bug

\* C4: on a local failure (file missing or unreadable, malformed JSON in a
\* .json file, malformed XML in a .xml file, unsupported extension) the
\* invocation never raises: the loader returns a string that starts with
\* "Error" ("Error reading file: " for read and parse failures) and
\* classify_bug_report returns the error mapping holding it.
Thm_C4 ==
    LocalFailure =>
        /\ pc \in {"load", "returned"}
        /\ exception = "none"
        /\ Loaded =>
            /\ StartsWith(file_content_str, ErrorPrefix)
            /\ ReadOrParseFailure => StartsWith(file_content_str, ReadErrorPrefix)
            /\ DOMAIN result = {"error"}
            /\ result.error = file_content_str

Witness_C4 ==
    /\ Readable /\ IsJsonPath /\ ~JsonCase
    /\ file.content.kind = "text"
    /\ file.content.text = <<"[", "1", ",", "]">>
    /\ IsErrorMapping
    /\ StartsWith(result.error, ReadErrorPrefix)

\* the elements with non-empty trimmed text, in document order, root included
TextElements(root) ==
    LET bears(e) == Strip(e.text) # <<>>
    IN  SelectSeq(Iter(root), bears)

\* one entry "<Capitalized tag>: <trimmed text>" per such element
Entries(root) ==
    LET es == TextElements(root)
    IN  [i \in 1..Len(es) |-> Capitalize(es[i].tag) \o <<":", " ">> \o Strip(es[i].text)]

\* the lines of a text: the text split on newlines, none for an empty text
Lines(s) == IF s = <<>> THEN <<>> ELSE Split(s, "\n")

\* C5 as stated: for a well-formed .xml file the output, split on newlines, is
\* the sequence of entries "<Capitalized tag>: <trimmed text>", one line per
\* element with non-empty trimmed text, in document order.
Orig_C5 ==
    (Loaded /\ XmlCase) => Lines(file_content_str) = Entries(file.content.root)

\* C5 as amended: for a well-formed .xml file the output is the entries
\* "<Capitalized tag>: <trimmed text>", one per element with non-empty trimmed
\* text, in document order, joined by newlines; an entry whose trimmed text has
\* a line break inside spans several output lines, and the output split on
\* newlines is the sequence of entries when no trimmed text has one.
Thm_C5 ==
    (Loaded /\ XmlCase) =>
        LET entries == Entries(file.content.root)
        IN  /\ file_content_str = Join(<<"\n">>, entries)
            /\ (\A i \in 1..Len(entries) : Count(entries[i], "\n") = 0)
                  => Lines(file_content_str) = entries

Witness_C5 ==
    /\ Loaded /\ XmlCase
    /\ Len(Iter(file.content.root)) = 3
    /\ Len(Entries(file.content.root)) = 2
    /\ Len(Lines(file_content_str)) = 3
    /\ file_content_str
          = <<"I", "d", ":", " ", "y", "\n", "z", "\n", "E", "r", "r", "o", "r", ":", " ", "x">>

\* C6: for a well-formed .json file, the loader's output parsed as JSON is
\* equal to the file's content parsed as JSON.
Thm_C6 ==
    (Loaded /\ JsonCase) =>
        /\ Loads(file_content_str).ok
        /\ Loads(file_content_str).val = Loads(file.content.text).val

Witness_C6 ==
    /\ Loaded /\ JsonCase
    /\ file_content_str # file.content.text
    /\ Loads(file.content.text).val
          = JObj(<<[k |-> <<"k", "\"">>, v |-> JStr(<<"\\", "\n">>)],
                   [k |-> <<"a">>, v |-> JNum(-12)]>>)

\* the provider's answer conforms to the schema
Conforms(r) ==
    /\ {"priority", "component", "is_valid_bug", "summary_of_bug"} \subseteq DOMAIN r
    /\ r.priority \in {"High", "Medium", "Low"}
    /\ r.component \in {"UI", "Backend", "Database", "API", "Testing"}
    /\ r.is_valid_bug \in {"true", "false"}

CallFailed == reply.kind # "payload" \/ ~Conforms(reply.payload)

\* C7: when the loader's result is not an error sentinel, the invocation makes
\* the remote call exactly once; when that call fails (network, provider or
\* authentication error, or an answer that violates the schema) the invocation
\* ends with an exception, after that single call, and returns no mapping.
Thm_C7 ==
    LoaderSucceeded =>
        /\ Count(effects, "remote_call") = (IF Finished THEN 1 ELSE 0)
        /\ (Finished /\ CallFailed) =>
              /\ pc = "raised"
              /\ exception \in {"network", "provider", "authentication", "validation"}
              /\ result = NoResult
        /\ pc = "returned" => exception = "none" /\ ~CallFailed

Witness_C7 ==
    /\ LoaderSucceeded
    /\ pc = "raised"
    /\ exception = "validation"
    /\ Count(effects, "remote_call") = 1

\* C8: when the loader's result is not an error sentinel and GOOGLE_API_KEY is
\* not set, the invocation prints one warning, before the remote call, and goes
\* on to make the call: it never ends without having made it, and never
\* returns an error mapping.
Thm_C8 ==
    (LoaderSucceeded /\ GOOGLE_API_KEY = Unset) =>
        /\ Count(effects, "warning") = (IF pc = "check_key" THEN 0 ELSE 1)
        /\ \A i \in 1..Len(effects) :
              effects[i] = "remote_call" => \E j \in 1..(i - 1) : effects[j] = "warning"
        /\ Finished => Count(effects, "remote_call") = 1
        /\ ~Finished => ENABLED Next
        /\ ~IsErrorMapping

Witness_C8 ==
    /\ LoaderSucceeded
    /\ GOOGLE_API_KEY = Unset
    /\ pc = "raised"
    /\ exception = "authentication"
    /\ effects = <<"getenv", "warning", "client", "remote_call">>

\* C9 as stated: classify_bug_report returns an error mapping only when the
\* loader failed; for a readable, well-formed .json or .xml file the loader's
\* output does not start with "Error" and the invocation goes on to the remote
\* call.
Orig_C9 ==
    (Loaded /\ (JsonCase \/ XmlCase)) =>
        /\ ~StartsWith(file_content_str, ErrorPrefix)
        /\ ~IsErrorMapping

\* C10: when the loader's result is an error sentinel the invocation has no
\* effect but its return value: the environment is not read, nothing is
\* printed, no client is built, no remote call is made, nothing is raised.
Thm_C10 ==
    ReturnedSentinel =>
        /\ effects = <<>>
        /\ reply = NoReply
        /\ exception = "none"
        /\ ~ENABLED Next

Witness_C10 ==
    /\ ReturnedSentinel
    /\ GOOGLE_API_KEY = Unset
    /\ pc = "returned"
    /\ file_content_str = UnsupportedPrefix \o <<"b", ".", "t", "x", "t">>
    /\ effects = <<>>

=============================================================================
